---- MODULE Spec2Model ----
(***************************************************************************)
(* Two plugin adapters of LLMStack:                                        *)
(*   - ChatCompletions.process  (processors/providers/localai)             *)
(*   - JunosLogin.activate      (connections/handlers/junos_login)         *)
(* Each adapter is a sequential handler; its steps are the actions below.  *)
(* The external LLM client, the device client and the host's output sink   *)
(* are the environment: their outcomes are chosen nondeterministically.    *)
(***************************************************************************)
EXTENDS Integers, Sequences, FiniteSets, TLC

(* ------------------------------ bounds -------------------------------- *)
MaxMsgs == 2        \* longest caller-supplied message list
MaxResults == 3     \* longest sequence of partial results the client yields
MaxFuncs == 1       \* longest list of function definitions (Spec)
MaxParamLen == 5    \* longest `parameters` text, in JSON tokens (SpecFn)

(* --------------------------- Python values ---------------------------- *)
\* Optional[T]: None, or a present value.
None == <<>>
Some(v) == <<v>>

\* Python truthiness of an Optional[str]: None and '' are falsy.
Truthy(o) == o # None /\ o[1] # ""

\* dict.get(key): None when the key is missing.
DictGet(d, key) == IF key \in DOMAIN d THEN Some(d[key]) ELSE None

(* ------------------------------- JSON --------------------------------- *)
\* A `parameters` text is a sequence of JSON tokens; the subset below has
\* the number 1, the string "a", and objects with at most one member.
JsonTokens == {"{", "}", "\"a\"", ":", "1"}

JNum(n) == [t |-> "number", v |-> n]
JStr(s) == [t |-> "string", v |-> s]
JObj(members) == [t |-> "object", v |-> members]
EmptyObject == JObj({})

\* json.loads, by recursive descent: the value starting at token i and the
\* index after it, or a failure.
RECURSIVE ParseValue(_, _)
ParseValue(text, i) ==
    IF i > Len(text) THEN [ok |-> FALSE]
    ELSE IF text[i] = "1" THEN [ok |-> TRUE, value |-> JNum(1), next |-> i + 1]
    ELSE IF text[i] = "\"a\"" THEN [ok |-> TRUE, value |-> JStr("a"), next |-> i + 1]
    ELSE IF text[i] = "{" THEN
        IF i + 1 <= Len(text) /\ text[i + 1] = "}"
        THEN [ok |-> TRUE, value |-> EmptyObject, next |-> i + 2]
        ELSE IF i + 2 <= Len(text) /\ text[i + 1] = "\"a\"" /\ text[i + 2] = ":"
        THEN LET r == ParseValue(text, i + 3) IN
             IF r.ok /\ r.next <= Len(text) /\ text[r.next] = "}"
             THEN [ok |-> TRUE, value |-> JObj({<<"a", r.value>>}), next |-> r.next + 1]
             ELSE [ok |-> FALSE]
        ELSE [ok |-> FALSE]
    ELSE [ok |-> FALSE]

\* json.loads(text): the parsed value, or JSONDecodeError (ok = FALSE) when
\* the text is not exactly one JSON value.
json_loads(text) ==
    LET r == ParseValue(text, 1) IN
    IF r.ok /\ r.next = Len(text) + 1
    THEN [ok |-> TRUE, value |-> r.value]
    ELSE [ok |-> FALSE]

(* ------------------------- chat-completion data ----------------------- *)
\* class Role(str, Enum): the members, and the value each one serializes to
Role == {"Role.SYSTEM", "Role.USER", "Role.ASSISTANT", "Role.FUNCTION"}
RoleValue(r) ==
    CASE r = "Role.SYSTEM" -> "system"
      [] r = "Role.USER" -> "user"
      [] r = "Role.ASSISTANT" -> "assistant"
      [] r = "Role.FUNCTION" -> "function"

\* ChatMessage(role=..., content=..., name=..., function_call=...)
ChatMessage(role, content, name, function_call) ==
    [role |-> role, content |-> content, name |-> name, function_call |-> function_call]

\* variant of the default below: an empty list
EmptyDefaultMessages == <<>>

\* default=[ChatMessage()]: one message, every field at its default
DefaultMessages == <<ChatMessage("Role.USER", "", "", None)>>

\* ChatCompletionInput(...): a field the caller omits takes its default.
ChatCompletionInput(system_message, messagesArg, functions) ==
    [system_message |-> system_message,
     messages |-> IF messagesArg = None THEN DefaultMessages ELSE messagesArg[1],
     functions |-> functions]

\* json.loads(msg_entry.json()): the message as a plain dict.
MsgJson(m) ==
    [role |-> RoleValue(m.role), content |-> m.content, name |-> m.name,
     function_call |-> m.function_call]

\* variant of the constructor below: choices left at its default, []
OutputDefaultChoices(choices) == [choices |-> <<>>]

\* ChatCompletionsOutput(choices=...)
ChatCompletionsOutput(choices) == [choices |-> choices]

(* ------------------------------ inputs -------------------------------- *)
SampleMessages ==
    {ChatMessage("Role.USER", "hi", "", None),
     ChatMessage("Role.ASSISTANT", "", "", Some([name |-> "f", arguments |-> "{}"]))}

SeqsUpTo(S, n) == UNION {[1..k -> S] : k \in 0..n}

SystemMessages == {None, Some(""), Some("You are helpful")}

Envs ==
    {[localai_api_key |-> "sk"]} \cup
    {[localai_api_key |-> "sk", localai_base_url |-> u] : u \in {"", "http://env"}}

Configs ==
    [base_url : {None, Some(""), Some("http://cfg")},
     model : {"ggml-gpt4all-j"}, max_tokens : {1024}, temperature : {"0.7"},
     stream : BOOLEAN, function_call : {None}]

FunctionCall(name, description, parameters) ==
    [name |-> name, description |-> description, parameters |-> parameters]

\* function lists whose `parameters` texts come from P
FunctionLists(P, n) ==
    {None} \cup
    {Some(fs) : fs \in SeqsUpTo({FunctionCall("f", None, p) : p \in P}, n)}

SampleParams == {None, Some(<<"{", "}">>), Some(<<"{">>)}

AllParams == {None} \cup {Some(t) : t \in SeqsUpTo(JsonTokens, MaxParamLen)}

\* what the external client may answer with
Choices == {<<ChatMessage("Role.ASSISTANT", "a", "", None)>>,
            <<ChatMessage("Role.ASSISTANT", "b", "", None)>>}
ClientResults == [choices : Choices]
ClientErrors == {"APIError: connection refused", "Timeout"}

(* ------------------------------- state -------------------------------- *)
VARIABLES
    request,                   \* the arguments the host builds self._input from
    env, config, input,        \* self._env, self._config, self._input
    pc,                        \* position of process()
    base_url, chat_messages, openai_functions, api_input,   \* locals of process()
    client_calls,              \* calls made on the external LLM client
    yielded,                   \* partial results result_iter has yielded
    client_raised,             \* the error the external LLM client raised, if any
    result,                    \* the loop variable / the batch result
    output_stream,             \* the host's sink: writes in flight, log of completed calls
    outcome,                   \* how process() ended
    connection, device, jpc, activate_out, caught

chatVars == <<request, env, config, input, pc, base_url, chat_messages,
              openai_functions, api_input, client_calls, yielded, client_raised,
              result, output_stream, outcome>>
junosVars == <<connection, device, jpc, activate_out, caught>>
vars == <<chatVars, junosVars>>

(* ------------------- ChatCompletions.process: helpers ----------------- *)
\* variant of ResolveBaseUrl: the environment's value wins over the configuration's
EnvBaseUrlWins(e, c) ==
    IF Truthy(DictGet(e, "localai_base_url"))
    THEN DictGet(e, "localai_base_url") ELSE c.base_url

\* lines 126-130: the environment's default, overridden by a truthy
\* configuration value
ResolveBaseUrl(e, c) ==
    IF Truthy(c.base_url) THEN c.base_url ELSE DictGet(e, "localai_base_url")

\* lines 137-141: the system entry when the system message is truthy, then
\* every input message as a plain dict
BuildChatMessages(inp) ==
    (IF Truthy(inp.system_message)
     THEN <<[role |-> "system", content |-> inp.system_message[1]]>>
     ELSE <<>>)
    \o [i \in 1..Len(inp.messages) |-> MsgJson(inp.messages[i])]

\* OpenAIFunctionCall(name=..., description=..., parameters=...)
OpenAIFunctionCall(name, description, parameters) ==
    [name |-> name, description |-> description, parameters |-> parameters]

\* variant of TranslateParameters: the text is passed on unparsed
ParametersUnparsed(f) ==
    IF f.parameters # None
    THEN [ok |-> TRUE, value |-> f.parameters[1]]
    ELSE [ok |-> TRUE, value |-> EmptyObject]

\* lines 148-150: json.loads(function.parameters) unless it is None
TranslateParameters(f) ==
    IF f.parameters # None THEN json_loads(f.parameters[1])
    ELSE [ok |-> TRUE, value |-> EmptyObject]

\* lines 142-153: None without function definitions; otherwise one
\* descriptor per definition, or the JSONDecodeError of the first bad one
TranslateFunctions(inp) ==
    IF inp.functions = None THEN [ok |-> TRUE, value |-> None]
    ELSE LET fs == inp.functions[1] IN
         IF \E i \in 1..Len(fs) : ~TranslateParameters(fs[i]).ok
         THEN [ok |-> FALSE]
         ELSE [ok |-> TRUE,
               value |-> Some([i \in 1..Len(fs) |->
                   OpenAIFunctionCall(fs[i].name, fs[i].description,
                                      TranslateParameters(fs[i]).value)])]

\* lines 154-160
LocalAIChatCompletionsAPIProcessorInput(api_key, system_message, messages, functions) ==
    [env |-> [openai_api_key |-> api_key],
     system_message |-> system_message,
     chat_history |-> <<>>,
     messages |-> messages,
     functions |-> functions]

\* lines 164-171 and 179-186
LocalAIChatCompletionsAPIProcessorConfiguration(url, c, stream) ==
    [base_url |-> url, model |-> c.model, max_tokens |-> c.max_tokens,
     temperature |-> c.temperature, stream |-> stream,
     function_call |-> c.function_call]

Raised(error) == [kind |-> "raised", error |-> error]
Returned == [kind |-> "returned"]
Running == [kind |-> "running"]

\* the sink's completed writes, in order, and its finalize count
Written(os) ==
    LET w == SelectSeq(os.log, LAMBDA ev : ev.op = "write")
    IN [i \in 1..Len(w) |-> w[i].data]
Finalized(os) == Len(SelectSeq(os.log, LAMBDA ev : ev.op = "finalize"))

\* variant of OnClientError: the error is swallowed and the sink finalized
SuppressClientError(e) == [pc |-> "finalize", outcome |-> Running]

\* lines 174 and 187 stand in no try block: what the client raises ends
\* process() and is its outcome
OnClientError(e) == [pc |-> "raised", outcome |-> Raised(e)]

\* variant of AsyncToSyncReturns: the write is started and not awaited
FireAndForget(os) == TRUE

\* async_to_sync(f)(x) returns once the coroutine f(x) has completed
AsyncToSyncReturns(os) == os.pending = <<>>

(* ------------------- ChatCompletions.process: steps ------------------- *)
\* lines 125-133
ResolveBase ==
    /\ pc = "start"
    /\ base_url' = ResolveBaseUrl(env, config)
    /\ IF ~Truthy(base_url')
       THEN /\ pc' = "raised"
            /\ outcome' = Raised("Base URL is not set")
       ELSE /\ pc' = "build"
            /\ UNCHANGED outcome
    /\ UNCHANGED <<client_raised, request, env, config, input, chat_messages, openai_functions, api_input,
                   client_calls, yielded, result, output_stream, junosVars>>

\* lines 135-160
BuildRequest ==
    /\ pc = "build"
    /\ chat_messages' = Some(BuildChatMessages(input))
    /\ LET tf == TranslateFunctions(input) IN
       IF ~tf.ok
       THEN /\ pc' = "raised"
            /\ outcome' = Raised("JSONDecodeError")
            /\ UNCHANGED <<openai_functions, api_input>>
       ELSE /\ openai_functions' = tf.value
            /\ api_input' = Some(LocalAIChatCompletionsAPIProcessorInput(
                   DictGet(env, "localai_api_key"), input.system_message,
                   input.messages, tf.value))
            /\ pc' = "dispatch"
            /\ UNCHANGED outcome
    /\ UNCHANGED <<client_raised, request, env, config, input, base_url, client_calls, yielded, result,
                   output_stream, junosVars>>

\* lines 163-172: the streaming call
CallProcessIter ==
    /\ pc = "dispatch" /\ config.stream
    /\ client_calls' = Append(client_calls,
           [method |-> "process_iter",
            configuration |-> LocalAIChatCompletionsAPIProcessorConfiguration(
                base_url[1], config, TRUE),
            input |-> api_input[1]])
    /\ pc' = "iterate"
    /\ UNCHANGED <<client_raised, request, env, config, input, base_url, chat_messages, openai_functions,
                   api_input, yielded, result, output_stream, outcome, junosVars>>

\* line 174: the loop asks for the next partial result and gets one
IterYield ==
    /\ pc = "iterate" /\ Len(yielded) < MaxResults
    /\ \E r \in ClientResults :
          /\ yielded' = Append(yielded, r)
          /\ result' = Some(r)
    /\ pc' = "write"
    /\ UNCHANGED <<client_raised, request, env, config, input, base_url, chat_messages, openai_functions,
                   api_input, client_calls, output_stream, outcome, junosVars>>

\* line 174: the sequence is exhausted
IterExhausted ==
    /\ pc = "iterate"
    /\ pc' = "finalize"
    /\ UNCHANGED <<client_raised, request, env, config, input, base_url, chat_messages, openai_functions,
                   api_input, client_calls, yielded, result, output_stream, outcome,
                   junosVars>>

\* line 174: the client raises in the middle of the sequence
IterRaise ==
    /\ pc = "iterate"
    /\ \E e \in ClientErrors :
          /\ client_raised' = Some(e)
          /\ pc' = OnClientError(e).pc
          /\ outcome' = OnClientError(e).outcome
    /\ UNCHANGED <<request, env, config, input, base_url, chat_messages, openai_functions,
                   api_input, client_calls, yielded, result, output_stream, junosVars>>

\* lines 178-187: the batch call returns
CallProcessReturns ==
    /\ pc = "dispatch" /\ ~config.stream
    /\ client_calls' = Append(client_calls,
           [method |-> "process",
            configuration |-> LocalAIChatCompletionsAPIProcessorConfiguration(
                base_url[1], config, FALSE),
            input |-> api_input[1]])
    /\ \E r \in ClientResults : result' = Some(r)
    /\ pc' = "write"
    /\ UNCHANGED <<client_raised, request, env, config, input, base_url, chat_messages, openai_functions,
                   api_input, yielded, output_stream, outcome, junosVars>>

\* lines 178-187: the batch call raises
CallProcessRaises ==
    /\ pc = "dispatch" /\ ~config.stream
    /\ client_calls' = Append(client_calls,
           [method |-> "process",
            configuration |-> LocalAIChatCompletionsAPIProcessorConfiguration(
                base_url[1], config, FALSE),
            input |-> api_input[1]])
    /\ \E e \in ClientErrors :
          /\ client_raised' = Some(e)
          /\ pc' = OnClientError(e).pc
          /\ outcome' = OnClientError(e).outcome
    /\ UNCHANGED <<request, env, config, input, base_url, chat_messages, openai_functions,
                   api_input, yielded, result, output_stream, junosVars>>

\* lines 175-176 and 189-190: the write coroutine is started
WriteBegin ==
    /\ pc = "write"
    /\ output_stream' = [output_stream EXCEPT
           !.pending = Append(@, ChatCompletionsOutput(result[1].choices))]
    /\ pc' = "await_write"
    /\ UNCHANGED <<client_raised, request, env, config, input, base_url, chat_messages, openai_functions,
                   api_input, client_calls, yielded, result, outcome, junosVars>>

\* the host's sink completes the oldest write in flight
SinkWriteDone ==
    /\ output_stream.pending # <<>>
    /\ output_stream' = [output_stream EXCEPT
           !.pending = Tail(@),
           !.log = Append(@, [op |-> "write", data |-> Head(output_stream.pending)])]
    /\ UNCHANGED <<client_raised, request, env, config, input, pc, base_url, chat_messages, openai_functions,
                   api_input, client_calls, yielded, result, outcome, junosVars>>

\* lines 175 and 189: async_to_sync hands control back
WriteReturn ==
    /\ pc = "await_write"
    /\ AsyncToSyncReturns(output_stream)
    /\ pc' = IF config.stream THEN "iterate" ELSE "finalize"
    /\ UNCHANGED <<client_raised, request, env, config, input, base_url, chat_messages, openai_functions,
                   api_input, client_calls, yielded, result, output_stream, outcome,
                   junosVars>>

\* line 192
Finalize ==
    /\ pc = "finalize"
    /\ output_stream' = [output_stream EXCEPT !.log = Append(@, [op |-> "finalize"])]
    /\ outcome' = Returned
    /\ pc' = "done"
    /\ UNCHANGED <<client_raised, request, env, config, input, base_url, chat_messages, openai_functions,
                   api_input, client_calls, yielded, result, junosVars>>

(* --------------------------- JunosLogin data -------------------------- *)
ConfigKeys == {"address", "device_address", "username", "password"}

\* a configuration dict: the keys the selection gives a value to
ConfigDict(sel) == [k \in {k \in ConfigKeys : sel[k] # None} |-> sel[k][1]]

\* JunosLoginConfiguration(address=..., username=..., password=...).dict()
JunosLoginConfiguration(address, username, password) ==
    ConfigDict([address |-> Some(address), device_address |-> None,
                username |-> Some(username), password |-> Some(password)])

JunosConfigs ==
    {ConfigDict(sel) : sel \in
        [address : {None, Some("localhost")},
         device_address : {None, Some("10.0.0.1")},
         username : {None, Some("admin"), Some("guest")},
         password : {None, Some("pw1"), Some("bad")}]}

ConnectionStatus == {"CREATED", "ACTIVE", "FAILED"}

\* the account the device accepts
ValidCredentials(user, password) == user = "admin" /\ password = "pw1"

\* exceptions: a type and the constructor's arguments
KeyError(key) == [type |-> "KeyError", args |-> <<key>>]

\* what open() and close() may raise whatever the credentials are: an error
\* with a message, or one raised without arguments
DeviceErrors ==
    {[type |-> "ConnectTimeoutError", args |-> <<"ConnectTimeoutError(10.0.0.1)">>],
     [type |-> "EOFError", args |-> <<>>]}
\* what open() raises for credentials the device rejects
AuthError == [type |-> "ConnectAuthError", args |-> <<"ConnectAuthError(10.0.0.1)">>]
\* line 35 without the SDK installed
ImportError == [type |-> "ImportError", args |-> <<"No module named 'jnpr'">>]

\* repr() of the key strings
Repr(k) ==
    CASE k = "device_address" -> "'device_address'"
      [] k = "username" -> "'username'"
      [] k = "password" -> "'password'"

\* str(e): empty without arguments, the repr of the key for a KeyError,
\* the message otherwise
Str(e) ==
    IF e.args = <<>> THEN ""
    ELSE IF e.type = "KeyError" THEN Repr(e.args[1])
    ELSE e.args[1]

\* variant of HostKey: the key JunosLoginConfiguration declares
AddressKey == "address"

\* line 37: the key the host is read from
HostKey == "device_address"

\* lines 37-38: the keys are read in argument order; the first one missing
\* raises KeyError
MissingKey(cfg) ==
    IF HostKey \notin DOMAIN cfg THEN Some(HostKey)
    ELSE IF "username" \notin DOMAIN cfg THEN Some("username")
    ELSE IF "password" \notin DOMAIN cfg THEN Some("password")
    ELSE None

\* variant of the two assignments below: the status is left as it was
StatusUntouched(st) == st

\* line 41
ActiveStatus(st) == "ACTIVE"

\* line 44
FailedStatus(st) == "FAILED"

\* lines 34-43: the statements the try block covers
InTry(jp) == jp \in {"import", "device", "open", "close"}

\* line 43: an exception raised inside the try block reaches the handler
\* (every exception modelled here is an Exception); elsewhere it leaves
\* activate
RaiseAt(jp) == IF InTry(jp) THEN "except" ELSE "propagated"

(* ------------------------ JunosLogin.activate ------------------------- *)
\* line 35
ImportOk ==
    /\ jpc = "import"
    /\ jpc' = "device"
    /\ UNCHANGED <<connection, device, activate_out, caught, chatVars>>

\* line 35, without the SDK installed
ImportFails ==
    /\ jpc = "import"
    /\ caught' = Some(ImportError)
    /\ jpc' = RaiseAt(jpc)
    /\ UNCHANGED <<connection, device, activate_out, chatVars>>

\* lines 37-38: Device(host=..., user=..., password=...)
DeviceNew ==
    /\ jpc = "device"
    /\ LET k == MissingKey(connection.configuration) IN
       IF k # None
       THEN /\ caught' = Some(KeyError(k[1]))
            /\ jpc' = RaiseAt(jpc)
            /\ UNCHANGED device
       ELSE /\ device' = [device EXCEPT
                  !.host = Some(connection.configuration[HostKey]),
                  !.user = Some(connection.configuration["username"]),
                  !.password = Some(connection.configuration["password"])]
            /\ jpc' = "open"
            /\ UNCHANGED caught
    /\ UNCHANGED <<connection, activate_out, chatVars>>

\* line 38: .open() accepts the credentials
OpenOk ==
    /\ jpc = "open"
    /\ ValidCredentials(device.user[1], device.password[1])
    /\ device' = [device EXCEPT !.connected = TRUE, !.opened = @ + 1]
    /\ jpc' = "close"
    /\ UNCHANGED <<connection, activate_out, caught, chatVars>>

\* line 38: .open() raises (bad credentials, or the device is unreachable)
OpenRaises ==
    /\ jpc = "open"
    /\ \E e \in DeviceErrors \cup {AuthError} :
          /\ e = AuthError => ~ValidCredentials(device.user[1], device.password[1])
          /\ caught' = Some(e)
    /\ device' = [device EXCEPT !.attempts = @ + 1]
    /\ jpc' = RaiseAt(jpc)
    /\ UNCHANGED <<connection, activate_out, chatVars>>

\* line 39
CloseOk ==
    /\ jpc = "close"
    /\ device' = [device EXCEPT !.connected = FALSE, !.closed = @ + 1]
    /\ jpc' = "activate"
    /\ UNCHANGED <<connection, activate_out, caught, chatVars>>

\* line 39: .close() raises
CloseRaises ==
    /\ jpc = "close"
    /\ \E e \in DeviceErrors : caught' = Some(e)
    /\ jpc' = RaiseAt(jpc)
    /\ UNCHANGED <<connection, device, activate_out, chatVars>>

\* lines 41-42
YieldConnection ==
    /\ jpc = "activate"
    /\ connection' = [connection EXCEPT !.status = ActiveStatus(@)]
    /\ activate_out' = Append(activate_out, [kind |-> "Connection", object |-> "connection"])
    /\ jpc' = "suspended"
    /\ UNCHANGED <<device, caught, chatVars>>

\* lines 43-45
YieldFailure ==
    /\ jpc = "except"
    /\ connection' = [connection EXCEPT !.status = FailedStatus(@)]
    /\ activate_out' = Append(activate_out,
           [kind |-> "dict", error |-> Str(caught[1]), connection |-> "connection"])
    /\ jpc' = "suspended"
    /\ UNCHANGED <<device, caught, chatVars>>

\* the consumer asks for the next element: the generator ends
Exhausted ==
    /\ jpc = "suspended"
    /\ jpc' = "done"
    /\ UNCHANGED <<connection, device, activate_out, caught, chatVars>>

(* --------------------------- specifications --------------------------- *)
ChatIdle ==
    /\ pc = "start"
    /\ base_url = None /\ chat_messages = None /\ openai_functions = None
    /\ api_input = None /\ result = None
    /\ client_calls = <<>> /\ yielded = <<>> /\ client_raised = None
    /\ output_stream = [pending |-> <<>>, log |-> <<>>]
    /\ outcome = Running

JunosIdle ==
    /\ jpc = "import"
    /\ device = [host |-> None, user |-> None, password |-> None,
                 connected |-> FALSE, opened |-> 0, closed |-> 0, attempts |-> 0]
    /\ activate_out = <<>>
    /\ caught = None

NoConnection == connection = [configuration |-> <<>>, status |-> "CREATED"]

MessageArgs == {None} \cup {Some(ms) : ms \in SeqsUpTo(SampleMessages, MaxMsgs)}

Requests(functionLists) ==
    [system_message : SystemMessages, messages : MessageArgs, functions : functionLists]

InitChat ==
    /\ env \in Envs
    /\ config \in Configs
    /\ request \in Requests(FunctionLists(SampleParams, MaxFuncs))
    /\ input = ChatCompletionInput(request.system_message, request.messages,
                                   request.functions)
    /\ ChatIdle

InitFn ==
    /\ JunosIdle /\ NoConnection
    /\ env \in Envs
    /\ config \in {c \in Configs : c.base_url = None}
    /\ request \in [system_message : {None}, messages : {None},
                     functions : {Some(<<FunctionCall("f", None, p)>>) : p \in AllParams}]
    /\ input = ChatCompletionInput(request.system_message, request.messages,
                                   request.functions)
    /\ ChatIdle

InitJunos ==
    /\ connection \in [configuration : JunosConfigs, status : ConnectionStatus]
    /\ JunosIdle
    /\ ChatIdle /\ request = <<>> /\ env = <<>> /\ config = <<>> /\ input = <<>>

Init == InitChat /\ JunosIdle /\ NoConnection

Next ==
    \/ ResolveBase \/ BuildRequest
    \/ CallProcessIter \/ IterYield \/ IterExhausted \/ IterRaise
    \/ CallProcessReturns \/ CallProcessRaises
    \/ WriteBegin \/ SinkWriteDone \/ WriteReturn
    \/ Finalize

NextJunos ==
    \/ ImportOk \/ ImportFails \/ DeviceNew
    \/ OpenOk \/ OpenRaises \/ CloseOk \/ CloseRaises
    \/ YieldConnection \/ YieldFailure \/ Exhausted

Spec == Init /\ [][Next]_vars

SpecFn == InitFn /\ [][Next]_vars

SpecJunos == InitJunos /\ [][NextJunos]_vars

(* ------------------------- properties: chat --------------------------- *)
\* the sink outputs that relaying the results rs must produce
Outputs(rs) == [i \in 1..Len(rs) |-> [choices |-> rs[i].choices]]

Front(q) == SubSeq(q, 1, Len(q) - 1)

NoSinkActivity == output_stream = [pending |-> <<>>, log |-> <<>>]

\* C1: with stream=True, the i-th completed write carries the choices of
\* the i-th partial result; every write has completed when the next partial
\* result is requested; finalize happens once, after the last write, and
\* nothing is written after it.
C1_StreamWritesInOrder ==
    config.stream =>
      LET log == output_stream.log
          w == Written(output_stream) IN
      /\ \A i \in 1..Len(log) :
            log[i].op = "finalize" => i = Len(log) /\ pc = "done"
      /\ pc = "iterate" => w = Outputs(yielded) /\ output_stream.pending = <<>>
      /\ pc = "write" => w = Outputs(Front(yielded)) /\ output_stream.pending = <<>>
      /\ pc = "await_write" => w \o output_stream.pending = Outputs(yielded)
      /\ pc \in {"finalize", "done"} =>
            w = Outputs(yielded) /\ output_stream.pending = <<>>
      /\ pc = "done" => Finalized(output_stream) = 1 /\ Len(log) = Len(yielded) + 1
      /\ Len(client_calls) <= 1

C1_Witness ==
    /\ config.stream /\ pc = "done"
    /\ Len(yielded) = 3 /\ yielded[1] # yielded[2]
    /\ Len(Written(output_stream)) = 3
    /\ Written(output_stream)[1] # Written(output_stream)[2]

\* the message list the claim C2 describes: the system entry when a system
\* message is present, then the caller's messages in their order
ClaimedMessageList ==
    (IF Truthy(input.system_message)
     THEN <<[role |-> "system", content |-> input.system_message[1]]>>
     ELSE <<>>)
    \o [i \in 1..Len(input.messages) |->
          [role |-> RoleValue(input.messages[i].role),
           content |-> input.messages[i].content,
           name |-> input.messages[i].name,
           function_call |-> input.messages[i].function_call]]

\* the message list of a client call, as plain dicts
PassedMessageList(call) ==
    [i \in 1..Len(call.input.messages) |->
          [role |-> RoleValue(call.input.messages[i].role),
           content |-> call.input.messages[i].content,
           name |-> call.input.messages[i].name,
           function_call |-> call.input.messages[i].function_call]]

\* C2: the message list handed to the external client is the system entry
\* (when a system message is present) followed by the caller's messages in
\* their original order.
C2_ClientReceivesSystemEntryFirst ==
    \A i \in 1..Len(client_calls) :
        PassedMessageList(client_calls[i]) = ClaimedMessageList

\* C5: with stream=False a process() that returns has made one batch call,
\* one write (the choices of the one result) and then one finalize.
C5_BatchWritesOnce ==
    ~config.stream /\ pc = "done" =>
      /\ outcome = Returned
      /\ Len(client_calls) = 1 /\ client_calls[1].method = "process"
      /\ result # None
      /\ output_stream.log =
            <<[op |-> "write", data |-> [choices |-> result[1].choices]],
              [op |-> "finalize"]>>
      /\ output_stream.pending = <<>>

C5_Witness ==
    /\ ~config.stream /\ pc = "done"
    /\ Len(Written(output_stream)) = 1
    /\ Written(output_stream)[1].choices # <<>>

BaseUrlAbsent ==
    /\ config.base_url \in {None, Some("")}
    /\ "localai_base_url" \in DOMAIN env => env["localai_base_url"] = ""

\* C6: without a base URL in configuration and environment, process() ends
\* with the configuration error and has called the client and touched the
\* sink at no point; a base URL in the configuration is the one every
\* client call is made with, whatever the environment holds.
C6_BaseUrl ==
    /\ BaseUrlAbsent =>
          /\ client_calls = <<>> /\ NoSinkActivity
          /\ pc \in {"start", "raised"}
          /\ pc = "raised" => outcome = Raised("Base URL is not set")
    /\ config.base_url \notin {None, Some("")} =>
          /\ pc # "start" => base_url = config.base_url
          /\ outcome # Raised("Base URL is not set")
          /\ \A i \in 1..Len(client_calls) :
                client_calls[i].configuration.base_url = config.base_url[1]

C6_Witness ==
    /\ BaseUrlAbsent /\ pc = "raised"
    /\ outcome = Raised("Base URL is not set")
    /\ request.functions # None /\ request.messages # None

\* C8: an error the external client raises ends process() as its outcome:
\* one client call in all, no finalize, and the sink holds exactly the
\* results yielded before the failure.
C8_ClientErrorPropagates ==
    client_raised # None =>
      /\ pc = "raised"
      /\ outcome = Raised(client_raised[1])
      /\ Len(client_calls) = 1
      /\ Finalized(output_stream) = 0
      /\ Written(output_stream) = Outputs(yielded)
      /\ output_stream.pending = <<>>
      /\ ~config.stream => yielded = <<>> /\ output_stream.log = <<>>

C8_Witness ==
    /\ client_raised # None /\ config.stream
    /\ Len(yielded) = 2 /\ Len(Written(output_stream)) = 2
    /\ pc = "raised"

\* C9 as claimed: whenever process() has reached the external client, the
\* input's message list is non-empty.
C9_MessagesNeverEmpty ==
    client_calls # <<>> => input.messages # <<>>

\* C9, amended: when the caller gives no message list, the list that
\* reaches the client is the one placeholder user message; a list the
\* caller gives reaches the client as given, the empty list included.
C9_DefaultMessagesNonEmpty ==
    \A i \in 1..Len(client_calls) :
        LET passed == client_calls[i].input.messages IN
        IF request.messages = None
        THEN /\ Len(passed) = 1
             /\ passed[1] = [role |-> "Role.USER", content |-> "", name |-> "",
                             function_call |-> None]
        ELSE passed = request.messages[1]

C9_Witness ==
    /\ client_calls # <<>> /\ request.messages = None
    /\ Len(client_calls[1].input.messages) = 1

(* ------------------- properties: function parameters ------------------ *)
\* The JSON texts of the token subset with the values they denote, built
\* from the grammar:  value ::= 1 | "a" | {} | { "a" : value }
RECURSIVE JsonGrammar(_)
JsonGrammar(depth) ==
    LET atoms == {[text |-> <<"1">>, value |-> [t |-> "number", v |-> 1]],
                  [text |-> <<"\"a\"">>, value |-> [t |-> "string", v |-> "a"]],
                  [text |-> <<"{", "}">>, value |-> [t |-> "object", v |-> {}]]}
    IN IF depth = 0 THEN atoms
       ELSE atoms \cup
            {[text |-> <<"{", "\"a\"", ":">> \o g.text \o <<"}">>,
              value |-> [t |-> "object", v |-> {<<"a", g.value>>}]] :
                g \in JsonGrammar(depth - 1)}

ValidJson == JsonGrammar(MaxParamLen)
IsValidJson(text) == \E g \in ValidJson : g.text = text
Denotes(text) == (CHOOSE g \in ValidJson : g.text = text).value

HasMalformedParameters ==
    /\ input.functions # None
    /\ \E i \in 1..Len(input.functions[1]) :
          /\ input.functions[1][i].parameters # None
          /\ ~IsValidJson(input.functions[1][i].parameters[1])

\* what C7 says of the descriptors a client call carries
DescriptorsParsed ==
    \A c \in 1..Len(client_calls) :
        /\ input.functions = None => client_calls[c].input.functions = None
        /\ input.functions # None =>
              LET fs == input.functions[1]
                  ds == client_calls[c].input.functions[1] IN
              /\ Len(ds) = Len(fs)
              /\ \A i \in 1..Len(fs) :
                    /\ ds[i].name = fs[i].name
                    /\ ds[i].parameters =
                          IF fs[i].parameters = None
                          THEN [t |-> "object", v |-> {}]
                          ELSE Denotes(fs[i].parameters[1])

\* C7 as claimed: parsed parameters reach the client, {} for None, and
\* with a malformed `parameters` process() fails with a parse error before
\* any client call or sink write.
C7_MalformedIsParseError ==
    /\ DescriptorsParsed
    /\ HasMalformedParameters =>
          /\ client_calls = <<>> /\ NoSinkActivity
          /\ pc \in {"start", "build", "raised"}
          /\ pc = "raised" => outcome = Raised("JSONDecodeError")

\* C7, amended: as claimed, except that the failure is the parse error only
\* when a base URL is set; without one the configuration error comes first.
C7_FunctionParameters ==
    /\ DescriptorsParsed
    /\ HasMalformedParameters =>
          /\ client_calls = <<>> /\ NoSinkActivity
          /\ pc \in {"start", "build", "raised"}
          /\ pc = "raised" =>
                outcome = IF BaseUrlAbsent THEN Raised("Base URL is not set")
                          ELSE Raised("JSONDecodeError")

C7_Witness ==
    /\ client_calls # <<>>
    /\ request.functions = Some(<<[name |-> "f", description |-> None,
           parameters |-> Some(<<"{", "\"a\"", ":", "1", "}">>)]>>)
    /\ client_calls[1].input.functions[1][1].parameters =
           [t |-> "object", v |-> {<<"a", [t |-> "number", v |-> 1]>>}]

(* ------------------------- properties: Junos -------------------------- *)
Ended == jpc \in {"suspended", "done", "propagated"}

ConnectionYielded == activate_out = <<[kind |-> "Connection", object |-> "connection"]>>

FailureYielded ==
    /\ Len(activate_out) = 1
    /\ activate_out[1].kind = "dict"
    /\ activate_out[1].connection = "connection"

\* C3 as claimed: once the device client's session-open has accepted the
\* credentials, activate yields the Connection, with status ACTIVE, and
\* nothing else.
C3_ValidCredentialsYieldActive ==
    Ended /\ device.opened = 1 =>
        ConnectionYielded /\ connection.status = "ACTIVE"

\* C3, amended: the same once session-open has accepted the credentials
\* and session-close has returned without raising.
C3_OpenedAndClosedYieldActive ==
    /\ Ended /\ device.opened = 1 /\ device.closed = 1 =>
          ConnectionYielded /\ connection.status = "ACTIVE"
    /\ device.closed = 1 => jpc # "except" /\ caught = None
    /\ \A i \in 1..Len(activate_out) :
          activate_out[i].kind = "Connection" => device.opened = 1 /\ device.closed = 1

C3_Witness ==
    /\ jpc = "done" /\ device.opened = 1 /\ device.closed = 1
    /\ ConnectionYielded /\ connection.status = "ACTIVE"

\* C4 as claimed: whenever the device client raises, activate yields one
\* failure record with a non-empty error and the Connection, now FAILED.
C4_FailureRecordNonEmptyError ==
    Ended /\ caught # None =>
        /\ FailureYielded /\ activate_out[1].error # ""
        /\ connection.status = "FAILED"
        /\ jpc # "propagated"

\* C4, amended: as claimed, with the error text being the text of the
\* raised exception, which is empty when the exception carries no message.
C4_FailureRecord ==
    Ended /\ caught # None =>
        /\ FailureYielded
        /\ caught[1].args # <<>> => activate_out[1].error # ""
        /\ caught[1].args = <<>> => activate_out[1].error = ""
        /\ caught[1].type = "KeyError" =>
              activate_out[1].error \in {"'device_address'", "'username'", "'password'"}
        /\ connection.status = "FAILED"
        /\ jpc # "propagated"

C4_Witness ==
    /\ jpc = "done" /\ caught # None /\ caught[1].type = "ConnectTimeoutError"
    /\ device.opened = 1
    /\ FailureYielded /\ activate_out[1].error = "ConnectTimeoutError(10.0.0.1)"
    /\ connection.status = "FAILED"

DeclaredShape(cfg) == DOMAIN cfg = {"address", "username", "password"}

\* C10: the host is read from 'device_address' only; a configuration of the
\* declared shape (address, username, password) never gets a device
\* session opened and ends with the failure record and status FAILED.
C10_DeclaredConfigurationFails ==
    /\ device.host # None =>
          /\ "device_address" \in DOMAIN connection.configuration
          /\ device.host[1] = connection.configuration["device_address"]
    /\ DeclaredShape(connection.configuration) =>
          /\ device.host = None
          /\ device.opened = 0 /\ device.attempts = 0
          /\ jpc \notin {"open", "close", "activate"}
          /\ Ended => FailureYielded /\ connection.status = "FAILED"

C10_Witness ==
    /\ DeclaredShape(connection.configuration)
    /\ connection.configuration["username"] = "admin"
    /\ connection.configuration["password"] = "pw1"
    /\ jpc = "done" /\ FailureYielded /\ connection.status = "FAILED"
    /\ activate_out[1].error = "'device_address'"

====
